---- MODULE Spec2Model ----
(***************************************************************************)
(* Guardrails dashboard read path (dashboard.py) over the persisted run    *)
(* layout written by the evaluation executor:                              *)
(*     runs/<name>/meta.json      one JSON document                        *)
(*     runs/<name>/results.jsonl  one JSON record per line                 *)
(*                                                                         *)
(* JSON values are tagged records.  A number is an exact fraction n/d in   *)
(* lowest terms (Python computes the means in floating point; the model    *)
(* keeps them exact).  Run directory names are naturals whose numeric      *)
(* order is the lexicographic order of the timestamp names.                *)
(***************************************************************************)
EXTENDS Integers, Sequences, FiniteSets, TLC

VARIABLES
    rootExists,   \* the runs directory exists
    fs,           \* name -> directory entry (kind, meta.json, results.jsonl)
    ex,           \* the executor: its position in the run it is writing
    rd,           \* a load_results call in progress, line by line
    reply,        \* the value the last completed read returned
    cli           \* the evals command line: its inputs, the backend, its position

vars == <<rootExists, fs, ex, rd, reply, cli>>

-----------------------------------------------------------------------------
(* Bounds *)

MaxRuns == 2          \* run directories the executor creates
MaxPrompts == 2       \* prompts per run
MaxRecs == 3          \* records of a results file given to the summary
MaxScanDirs == 3      \* entries of the runs directory in a scan
MaxFleetRuns == 2     \* run directories under the fleet statistics
MaxLimit == 2         \* largest limit handed to get_recent_runs, the default aside

MaxWindowRuns == 6    \* run directories under the violations window

MaxPolicyKeys == 2    \* keys of a policy file

MaxModels == 2        \* entries of the backend's model list
MaxChars == 10        \* characters of a prompt or a response

(* Program constants *)

DefaultLimit == 10    \* get_recent_runs(limit=10)
StatsLimit == 50      \* get_dashboard_stats: get_recent_runs(limit=50)
ViolationWindow == 5  \* get_dashboard_stats: runs[:5]

-----------------------------------------------------------------------------
(* JSON values and the Python operations the code applies to them *)

RECURSIVE GCD(_, _)
GCD(a, b) == IF b = 0 THEN a ELSE GCD(b, a % b)

Rat(n, d) == LET g == GCD(n, d) IN [t |-> "num", n |-> n \div g, d |-> d \div g]

JNull == [t |-> "null"]
JBool(b) == [t |-> "bool", b |-> b]
JNum(n) == Rat(n, 1)
JStr(s) == [t |-> "str", s |-> s]
JObj(f) == [t |-> "obj", f |-> f]

EmptyDict == [k \in {} |-> JNull]

IsNone(v) == v.t = "null"
IsDict(v) == v.t = "obj"
IsNumber(v) == v.t \in {"num", "bool"}      \* bool is a subclass of int

\* A call's outcome: a value, or an exception that left the call.
Ok(v) == [ok |-> TRUE, v |-> v]
Raise(e) == [ok |-> FALSE, err |-> e]

\* int(True) = 1, int(False) = 0
AsRat(v) == IF v.t = "bool" THEN JNum(IF v.b THEN 1 ELSE 0) ELSE v

RatAdd(a, b) == Rat(a.n * b.d + b.n * a.d, a.d * b.d)
RatDiv(a, b) == Rat(a.n * b.d, a.d * b.n)
RatPositive(a) == a.n > 0

\* bool(v): the truth value Python gives a JSON value
Truthy(v) ==
    CASE v.t = "null" -> FALSE
      [] v.t = "bool" -> v.b
      [] v.t = "num" -> v.n # 0
      [] v.t = "str" -> v.s # ""
      [] v.t = "obj" -> DOMAIN v.f # {}
      [] OTHER -> TRUE

\* d.get(k) and d.get(k, default) on a dict d
DictGet(d, k) == IF k \in DOMAIN d.f THEN d.f[k] ELSE JNull
DictGetDefault(d, k, default) == IF k \in DOMAIN d.f THEN d.f[k] ELSE default

\* d[k] = v on a dict d
DictSet(d, k, v) ==
    JObj([x \in DOMAIN d.f \cup {k} |-> IF x = k THEN v ELSE d.f[x]])

\* sum(values): 0 + v1 + v2 + ..., a TypeError at the first non-number
RECURSIVE PySumFrom(_, _, _)
PySumFrom(values, i, acc) ==
    IF i > Len(values) THEN Ok(acc)
    ELSE IF ~IsNumber(values[i]) THEN Raise("TypeError")
    ELSE PySumFrom(values, i + 1, RatAdd(acc, AsRat(values[i])))

PySum(values) == PySumFrom(values, 1, JNum(0))

\* sum(xs) / len(xs) if xs else None
MeanOrNone(xs) ==
    IF xs = <<>> THEN Ok(JNull)
    ELSE LET s == PySum(xs)
         IN  IF s.ok THEN Ok(RatDiv(s.v, JNum(Len(xs)))) ELSE s

\* Faulty variant of NotNone: a field that is null or absent is counted as 0.
NoneAsZero(results, field) ==
    [i \in 1..Len(results) |->
        IF IsNone(DictGet(results[i], field)) THEN JNum(0)
        ELSE DictGet(results[i], field)]

\* [f(r) for r in results if f(r) is not None]
NotNone(results, field) ==
    SelectSeq([i \in 1..Len(results) |-> DictGet(results[i], field)],
              LAMBDA v : ~IsNone(v))

-----------------------------------------------------------------------------
(* calculate_run_summary *)

EmptySummary ==
    JObj([total_prompts |-> JNum(0), accuracy_rate |-> JNull,
          avg_latency_ms |-> JNull, blocked_count |-> JNum(0),
          avg_toxicity |-> JNull])

\* Faulty variant of TotalPrompts: only the records with an accuracy verdict count.
TotalEvaluated(results) == Len(NotNone(results, "accuracy"))

\* total = len(results)
TotalPrompts(results) == Len(results)

calculate_run_summary(results) ==
    IF results = <<>> THEN Ok(EmptySummary)
    ELSE IF \E i \in 1..Len(results) : ~IsDict(results[i])
    THEN Raise("AttributeError")            \* r.get on a non-dict record
    ELSE
    LET total == TotalPrompts(results)
        accuracy_rate == MeanOrNone(NotNone(results, "accuracy"))
        avg_latency == MeanOrNone(NotNone(results, "latency_ms"))
        blocked_count ==
            Cardinality({i \in 1..total :
                Truthy(DictGetDefault(results[i], "blocked", JBool(FALSE)))})
        avg_toxicity == MeanOrNone(NotNone(results, "toxicity"))
    IN  IF ~accuracy_rate.ok THEN accuracy_rate
        ELSE IF ~avg_latency.ok THEN avg_latency
        ELSE IF ~avg_toxicity.ok THEN avg_toxicity
        ELSE Ok(JObj([total_prompts |-> JNum(total),
                      accuracy_rate |-> accuracy_rate.v,
                      avg_latency_ms |-> avg_latency.v,
                      blocked_count |-> JNum(blocked_count),
                      avg_toxicity |-> avg_toxicity.v]))

-----------------------------------------------------------------------------
(* The text of results.jsonl and its parsing *)

\* The text of a file is a sequence of tokens: braces, one "key": value pair,
\* the text of a JSON value that is no object, and the newline.  A write
\* that is cut short leaves a prefix of the tokens.
LB == [c |-> "{"]
RB == [c |-> "}"]
NL == [c |-> "nl"]
KV(k, v) == [c |-> "kv", k |-> k, v |-> v]
Atom(v) == [c |-> "atom", v |-> v]

NoFile == [exists |-> FALSE, text |-> <<>>]
File(text) == [exists |-> TRUE, text |-> text]

\* for line in f: the text cut after each newline; the last line may have none
RECURSIVE SplitLines(_)
SplitLines(text) ==
    IF text = <<>> THEN <<>>
    ELSE LET ends == {i \in 1..Len(text) : text[i] = NL}
             k == IF ends = {} THEN Len(text)
                  ELSE CHOOSE i \in ends : \A j \in ends : i <= j
         IN  <<SubSeq(text, 1, k)>> \o SplitLines(SubSeq(text, k + 1, Len(text)))

\* line.strip(): newlines are the only white space of the text, and a line
\* holds one at its end at most
Strip(line) == SelectSeq(line, LAMBDA tok : tok # NL)

\* json.loads(line)
json_loads(line) ==
    LET body == Strip(line)
        n == Len(body)
    IN  IF n = 1 /\ body[1].c = "atom" THEN Ok(body[1].v)
        ELSE IF /\ n >= 2
                /\ body[1] = LB
                /\ body[n] = RB
                /\ \A i \in 2..(n - 1) : body[i].c = "kv"
        THEN LET keys == {body[i].k : i \in 2..(n - 1)}
                 last(k) == CHOOSE i \in 2..(n - 1) :
                               /\ body[i].k = k
                               /\ \A j \in 2..(n - 1) : body[j].k = k => j <= i
             IN  Ok(JObj([k \in keys |-> body[last(k)].v]))
        ELSE Raise("JSONDecodeError")

\* load_results: the records of the lines read before the first line that
\* does not parse; every exception is caught and the list so far returned
RECURSIVE LoadFrom(_, _, _)
LoadFrom(lines, i, results) ==
    IF i > Len(lines) THEN results
    ELSE IF Strip(lines[i]) = <<>> THEN LoadFrom(lines, i + 1, results)
    ELSE LET rec == json_loads(lines[i])
         IN  IF rec.ok THEN LoadFrom(lines, i + 1, Append(results, rec.v))
             ELSE results

load_results(results_file) ==
    IF ~results_file.exists THEN <<>>       \* open() raises, caught
    ELSE LoadFrom(SplitLines(results_file.text), 1, <<>>)

-----------------------------------------------------------------------------
(* The runs directory *)

\* meta.json: absent, text that is no JSON document, or a JSON document
\* (kept parsed: no read of the model depends on its text)
NoMeta == [st |-> "none", v |-> JNull]
GarbageMeta == [st |-> "garbage", v |-> JNull]
Meta(v) == [st |-> "json", v |-> v]

NoEntry == [kind |-> "none", meta |-> NoMeta, results |-> NoFile]
PlainFile == [kind |-> "file", meta |-> NoMeta, results |-> NoFile]
Dir(meta, results) == [kind |-> "dir", meta |-> meta, results |-> results]

Disk == [exists |-> rootExists, entries |-> fs]

JName(name) == [t |-> "name", id |-> name]

\* json.load(f) on an open meta.json
json_load(meta_file) ==
    IF meta_file.st = "json" THEN Ok(meta_file.v) ELSE Raise("JSONDecodeError")

\* Faulty variant of SortedReverse: sorted without reverse=True.
RECURSIVE SortedForward(_)
SortedForward(names) ==
    IF names = {} THEN <<>>
    ELSE LET low == CHOOSE n \in names : \A m \in names : n <= m
         IN  <<low>> \o SortedForward(names \ {low})

\* sorted(self.runs_dir.iterdir(), reverse=True)
RECURSIVE SortedReverse(_)
SortedReverse(names) ==
    IF names = {} THEN <<>>
    ELSE LET top == CHOOSE n \in names : \A m \in names : m <= n
         IN  <<top>> \o SortedReverse(names \ {top})

Listing(disk) ==
    SortedReverse({n \in DOMAIN disk.entries : disk.entries[n].kind # "none"})

\* get_recent_runs, the body of the try block for one run directory
LoadRun(entry, name) ==
    LET meta == json_load(entry.meta)
    IN  IF ~meta.ok THEN meta
        ELSE IF entry.results.exists
        THEN LET results == load_results(entry.results)
                 summary == calculate_run_summary(results)
             IN  IF ~summary.ok THEN summary
                 ELSE IF ~IsDict(meta.v) THEN Raise("TypeError")
                 ELSE Ok(DictSet(DictSet(meta.v, "summary", summary.v),
                                 "run_id", JName(name)))
        ELSE IF ~IsDict(meta.v) THEN Raise("TypeError")
        ELSE Ok(DictSet(meta.v, "run_id", JName(name)))

\* Faulty variant of RunOf: a directory without meta.json is listed with empty
\* metadata.
RunOfDefaultMeta(entry, name) ==
    IF entry.kind # "dir" THEN Raise("not a directory")
    ELSE IF entry.meta.st = "none"
    THEN LoadRun([entry EXCEPT !.meta = Meta(JObj(EmptyDict))], name)
    ELSE LoadRun(entry, name)

\* get_recent_runs, one pass of the loop up to the append: the run to list,
\* or the reason the entry is passed over (continue)
RunOf(entry, name) ==
    IF entry.kind # "dir" THEN Raise("not a directory")
    ELSE IF entry.meta.st = "none" THEN Raise("no meta.json")
    ELSE LoadRun(entry, name)

RECURSIVE ScanFrom(_, _, _, _, _)
ScanFrom(disk, names, i, runs, limit) ==
    IF i > Len(names) THEN runs
    ELSE LET run == RunOf(disk.entries[names[i]], names[i])
         IN  IF ~run.ok THEN ScanFrom(disk, names, i + 1, runs, limit)
             ELSE IF Len(runs) + 1 >= limit THEN Append(runs, run.v)   \* break
             ELSE ScanFrom(disk, names, i + 1, Append(runs, run.v), limit)

get_recent_runs(disk, limit) ==
    IF ~disk.exists THEN <<>>
    ELSE ScanFrom(disk, Listing(disk), 1, <<>>, limit)

\* get_run_details
get_run_details(disk, run_id) ==
    IF ~disk.exists \/ run_id \notin DOMAIN disk.entries
       \/ disk.entries[run_id].kind = "none"
    THEN [error |-> "Run not found"]
    ELSE LET entry == disk.entries[run_id]
         IN  IF entry.kind # "dir" THEN [error |-> "NotADirectoryError"]
             ELSE IF entry.meta.st = "none" THEN [error |-> "FileNotFoundError"]
             ELSE LET meta == json_load(entry.meta)
                      results == IF entry.results.exists
                                 THEN load_results(entry.results) ELSE <<>>
                      summary == calculate_run_summary(results)
                  IN  IF ~meta.ok THEN [error |-> meta.err]
                      ELSE IF ~summary.ok THEN [error |-> summary.err]
                      ELSE [metadata |-> meta.v, results |-> results,
                            summary |-> summary.v]

-----------------------------------------------------------------------------
(* get_dashboard_stats *)

HasKey(d, k) == k \in DOMAIN d.f

\* v[k]: TypeError when v is no dict, KeyError when the key is missing
Subscript(v, k) ==
    IF ~IsDict(v) THEN Raise("TypeError")
    ELSE IF ~HasKey(v, k) THEN Raise("KeyError")
    ELSE Ok(v.f[k])

\* [r["summary"][field] for r in runs if "summary" in r (and
\*  r["summary"][field] is not None)]
RECURSIVE SummaryValues(_, _, _, _, _)
SummaryValues(runs, i, field, skip_none, acc) ==
    IF i > Len(runs) THEN Ok(acc)
    ELSE IF ~HasKey(runs[i], "summary")
    THEN SummaryValues(runs, i + 1, field, skip_none, acc)
    ELSE LET x == Subscript(runs[i].f["summary"], field)
         IN  IF ~x.ok THEN x
             ELSE IF skip_none /\ IsNone(x.v)
             THEN SummaryValues(runs, i + 1, field, skip_none, acc)
             ELSE SummaryValues(runs, i + 1, field, skip_none, Append(acc, x.v))

\* Faulty variant of RecentViolations: every listed run is looked at, not
\* only runs[:5].
RECURSIVE RecentViolationsAll(_, _, _)
RecentViolationsAll(runs, i, acc) ==
    IF i > Len(runs) THEN Ok(acc)
    ELSE IF ~HasKey(runs[i], "summary") THEN RecentViolationsAll(runs, i + 1, acc)
    ELSE LET b == Subscript(runs[i].f["summary"], "blocked_count")
         IN  IF ~b.ok THEN b
             ELSE IF ~IsNumber(b.v) THEN Raise("TypeError")
             ELSE IF ~RatPositive(AsRat(b.v))
             THEN RecentViolationsAll(runs, i + 1, acc)
             ELSE RecentViolationsAll(runs, i + 1, Append(acc,
                    [run_id |-> runs[i].f["run_id"],
                     timestamp |-> DictGet(runs[i], "start_time"),
                     blocked_count |-> b.v,
                     total_prompts |->
                         DictGetDefault(runs[i], "total_prompts", JNum(0))]))

\* for run in runs[:5]: if "summary" in run and
\*     run["summary"]["blocked_count"] > 0: recent_violations.append(...)
RECURSIVE RecentViolations(_, _, _)
RecentViolations(runs, i, acc) ==
    IF i > Len(runs) \/ i > ViolationWindow THEN Ok(acc)
    ELSE IF ~HasKey(runs[i], "summary") THEN RecentViolations(runs, i + 1, acc)
    ELSE LET b == Subscript(runs[i].f["summary"], "blocked_count")
         IN  IF ~b.ok THEN b
             ELSE IF ~IsNumber(b.v) THEN Raise("TypeError")
             ELSE IF ~RatPositive(AsRat(b.v))
             THEN RecentViolations(runs, i + 1, acc)
             ELSE RecentViolations(runs, i + 1, Append(acc,
                    [run_id |-> runs[i].f["run_id"],
                     timestamp |-> DictGet(runs[i], "start_time"),
                     blocked_count |-> b.v,
                     total_prompts |->
                         DictGetDefault(runs[i], "total_prompts", JNum(0))]))

\* sum(xs) / len(xs) if xs else 0
MeanOrZero(xs) ==
    IF xs = <<>> THEN Ok(JNum(0))
    ELSE LET s == PySum(xs)
         IN  IF s.ok THEN Ok(RatDiv(s.v, JNum(Len(xs)))) ELSE s

\* Faulty variant of ViolationRate: the blocked total is divided by the number of
\* runs that have a summary.
ViolationRatePerRun(blocked_counts, total_evaluations) ==
    IF blocked_counts = <<>> THEN Ok(JNum(0))
    ELSE LET s == PySum(blocked_counts)
         IN  IF s.ok THEN Ok(RatDiv(s.v, JNum(Len(blocked_counts)))) ELSE s

\* sum(blocked_counts) / total_evaluations if total_evaluations > 0 else 0
ViolationRate(blocked_counts, total_evaluations) ==
    IF ~RatPositive(total_evaluations) THEN Ok(JNum(0))
    ELSE LET s == PySum(blocked_counts)
         IN  IF s.ok THEN Ok(RatDiv(s.v, total_evaluations)) ELSE s

NoRunsStats ==
    [total_runs |-> JNum(0), total_evaluations |-> JNum(0),
     avg_accuracy |-> JNum(0), avg_latency |-> JNum(0),
     violation_rate |-> JNum(0), recent_violations |-> <<>>]

StatsOf(runs) ==
    IF runs = <<>> THEN Ok(NoRunsStats)
    ELSE
    LET total_evaluations ==
            PySum([i \in 1..Len(runs) |->
                     DictGetDefault(runs[i], "total_prompts", JNum(0))])
        accuracies == SummaryValues(runs, 1, "accuracy_rate", TRUE, <<>>)
        latencies == SummaryValues(runs, 1, "avg_latency_ms", TRUE, <<>>)
        blocked_counts == SummaryValues(runs, 1, "blocked_count", FALSE, <<>>)
        recent_violations == RecentViolations(runs, 1, <<>>)
    IN  IF ~total_evaluations.ok THEN total_evaluations
        ELSE IF ~accuracies.ok THEN accuracies
        ELSE IF ~latencies.ok THEN latencies
        ELSE IF ~blocked_counts.ok THEN blocked_counts
        ELSE IF ~recent_violations.ok THEN recent_violations
        ELSE LET avg_accuracy == MeanOrZero(accuracies.v)
                 avg_latency == MeanOrZero(latencies.v)
                 violation_rate ==
                     ViolationRate(blocked_counts.v, total_evaluations.v)
             IN  IF ~avg_accuracy.ok THEN avg_accuracy
                 ELSE IF ~avg_latency.ok THEN avg_latency
                 ELSE IF ~violation_rate.ok THEN violation_rate
                 ELSE Ok([total_runs |-> JNum(Len(runs)),
                          total_evaluations |-> total_evaluations.v,
                          avg_accuracy |-> avg_accuracy.v,
                          avg_latency |-> avg_latency.v,
                          violation_rate |-> violation_rate.v,
                          recent_violations |-> recent_violations.v])

get_dashboard_stats(disk) == StatsOf(get_recent_runs(disk, StatsLimit))

-----------------------------------------------------------------------------
(* The persisted layout the executor writes *)

FieldOrder == <<"accuracy", "latency_ms", "blocked", "toxicity">>

\* json.dumps(record): the text of one record
Dumps(v) ==
    IF IsDict(v)
    THEN LET present == SelectSeq(FieldOrder, LAMBDA k : k \in DOMAIN v.f)
         IN  <<LB>> \o [i \in 1..Len(present) |-> KV(present[i], v.f[present[i]])]
                    \o <<RB>>
    ELSE <<Atom(v)>>

\* one record per line
RECURSIVE JsonLines(_)
JsonLines(records) ==
    IF records = <<>> THEN <<>>
    ELSE Dumps(Head(records)) \o <<NL>> \o JsonLines(Tail(records))

Record(accuracy, latency_ms, blocked, toxicity) ==
    JObj([accuracy |-> accuracy, latency_ms |-> latency_ms,
          blocked |-> blocked, toxicity |-> toxicity])

PassRecord == Record(JBool(TRUE), JNum(100), JBool(FALSE), JNum(0))
BlockedRecord == Record(JBool(FALSE), JNum(200), JBool(TRUE), JNum(1))
\* a backend failure: blocked, nothing measured
DegradedRecord == Record(JNull, JNull, JBool(TRUE), JNull)

\* The record the executor writes for a prompt of a run.  The backend's
\* answers are taken as given by the run and the prompt: successes and
\* failures alternate, and the order differs from one run to the next.
RecordFor(run, prompt) ==
    IF (run + prompt) % 2 = 0 THEN PassRecord ELSE DegradedRecord

ExecMeta(n) ==
    JObj([model |-> JStr("ollama/llama3"), start_time |-> JStr("t0"),
          total_prompts |-> JNum(n)])

-----------------------------------------------------------------------------
(* State *)

NoReply == [op |-> "none"]
IdleExecutor == [pc |-> "idle", run |-> 0, prompt |-> 0, pending |-> <<>>]
IdleReader == [pc |-> "idle", run |-> 0, pos |-> 0, results |-> <<>>]
NoCli == [pc |-> "none"]

Init ==
    /\ rootExists = FALSE
    /\ fs = [n \in 1..MaxRuns |-> NoEntry]
    /\ ex = IdleExecutor
    /\ rd = IdleReader
    /\ reply = NoReply
    /\ cli = NoCli

-----------------------------------------------------------------------------
(* The executor: one run after the other, one record per prompt, meta.json *)
(* at the end.  A step of the executor ends the life of the last reply.    *)

\* the output directory runs/<timestamp> is created
StartRun ==
    /\ ex.pc = "idle"
    /\ ex.run < MaxRuns
    /\ rootExists' = TRUE
    /\ fs' = [fs EXCEPT ![ex.run + 1] = Dir(NoMeta, NoFile)]
    /\ ex' = [pc |-> "writing", run |-> ex.run + 1, prompt |-> 0, pending |-> <<>>]
    /\ reply' = NoReply
    /\ UNCHANGED <<rd, cli>>

\* the next record's line is appended; the write may stop after k tokens
AppendRecord(k) ==
    /\ ex.pc = "writing"
    /\ ex.pending = <<>>
    /\ ex.prompt < MaxPrompts
    /\ LET line == Dumps(RecordFor(ex.run, ex.prompt + 1)) \o <<NL>>
           old == fs[ex.run].results.text
       IN  /\ k \in 1..Len(line)
           /\ fs' = [fs EXCEPT ![ex.run].results =
                        File(old \o SubSeq(line, 1, k))]
           /\ ex' = IF k = Len(line)
                    THEN [ex EXCEPT !.prompt = @ + 1]
                    ELSE [ex EXCEPT !.pending = SubSeq(line, k + 1, Len(line))]
    /\ reply' = NoReply
    /\ UNCHANGED <<rootExists, rd, cli>>

\* the rest of a line whose write stopped short
FinishLine ==
    /\ ex.pc = "writing"
    /\ ex.pending # <<>>
    /\ fs' = [fs EXCEPT ![ex.run].results =
                 File(fs[ex.run].results.text \o ex.pending)]
    /\ ex' = [ex EXCEPT !.pending = <<>>, !.prompt = @ + 1]
    /\ reply' = NoReply
    /\ UNCHANGED <<rootExists, rd, cli>>

\* the run completes: meta.json is written once, with the prompt count
WriteMeta ==
    /\ ex.pc = "writing"
    /\ ex.pending = <<>>
    /\ fs' = [fs EXCEPT ![ex.run].meta = Meta(ExecMeta(ex.prompt))]
    /\ ex' = [ex EXCEPT !.pc = "idle"]
    /\ reply' = NoReply
    /\ UNCHANGED <<rootExists, rd, cli>>

\* the run is cancelled between two records: no meta.json is written
Interrupt ==
    /\ ex.pc = "writing"
    /\ ex.pending = <<>>
    /\ ex' = [ex EXCEPT !.pc = "idle"]
    /\ reply' = NoReply
    /\ UNCHANGED <<rootExists, fs, rd, cli>>

-----------------------------------------------------------------------------
(* The dashboard's reads.  The server handles one request at a time.       *)

Limits == 0..MaxLimit \cup {DefaultLimit}

GetRecentRuns(limit) ==
    /\ rd.pc = "idle"
    /\ reply' = [op |-> "get_recent_runs", limit |-> limit,
                 out |-> get_recent_runs(Disk, limit)]
    /\ UNCHANGED <<rootExists, fs, ex, rd, cli>>

GetRunDetails(run_id) ==
    /\ rd.pc = "idle"
    /\ reply' = [op |-> "get_run_details", run_id |-> run_id,
                 out |-> get_run_details(Disk, run_id)]
    /\ UNCHANGED <<rootExists, fs, ex, rd, cli>>

GetDashboardStats ==
    /\ rd.pc = "idle"
    /\ reply' = [op |-> "get_dashboard_stats", out |-> get_dashboard_stats(Disk)]
    /\ UNCHANGED <<rootExists, fs, ex, rd, cli>>

\* calculate_run_summary applied to the records of one results file
CalcSummary(run) ==
    /\ rd.pc = "idle"
    /\ fs[run].results.exists
    /\ LET results == load_results(fs[run].results)
       IN  reply' = [op |-> "calculate_run_summary", run |-> run,
                     results |-> results,
                     out |-> calculate_run_summary(results)]
    /\ UNCHANGED <<rootExists, fs, ex, rd, cli>>

\* load_results on a file the executor may be appending to: open, then one
\* line per step
LoadOpen(run) ==
    /\ rd.pc = "idle"
    /\ fs[run].results.exists
    /\ rd' = [pc |-> "reading", run |-> run, pos |-> 0, results |-> <<>>]
    /\ reply' = NoReply
    /\ UNCHANGED <<rootExists, fs, ex, cli>>

LoadReturn(results) ==
    /\ rd' = IdleReader
    /\ reply' = [op |-> "load_results", run |-> rd.run, out |-> results]

LoadLine ==
    /\ rd.pc = "reading"
    /\ LET text == fs[rd.run].results.text
           rest == SubSeq(text, rd.pos + 1, Len(text))
       IN  IF rest = <<>> THEN LoadReturn(rd.results)          \* end of file
           ELSE LET line == Head(SplitLines(rest))
                    rec == json_loads(line)
                IN  IF Strip(line) = <<>>
                    THEN /\ rd' = [rd EXCEPT !.pos = @ + Len(line)]
                         /\ reply' = NoReply
                    ELSE IF rec.ok
                    THEN /\ rd' = [rd EXCEPT !.pos = @ + Len(line),
                                             !.results = Append(@, rec.v)]
                         /\ reply' = NoReply
                    ELSE LoadReturn(rd.results)                 \* caught
    /\ UNCHANGED <<rootExists, fs, ex, cli>>

Next ==
    \/ StartRun
    \/ \E k \in 1..(Len(FieldOrder) + 3) : AppendRecord(k)
    \/ FinishLine
    \/ WriteMeta
    \/ Interrupt
    \/ \E limit \in Limits : GetRecentRuns(limit)
    \/ GetDashboardStats
    \/ \E run \in DOMAIN fs : LoadOpen(run)
    \/ LoadLine

Spec == Init /\ [][Next]_vars

-----------------------------------------------------------------------------
(* The reads over an arbitrary persisted state: whatever the runs directory *)
(* holds when the dashboard is started on it.                               *)

ReadNext ==
    \/ \E limit \in Limits : GetRecentRuns(limit)
    \/ \E run_id \in DOMAIN fs : GetRunDetails(run_id)
    \/ GetDashboardStats
    \/ \E run \in DOMAIN fs : CalcSummary(run)

SummaryNext ==
    \/ \E run \in DOMAIN fs : CalcSummary(run)
    \/ \E run_id \in DOMAIN fs : GetRunDetails(run_id)

SeqsUpTo(S, n) == UNION {[1..m -> S] : m \in 0..n}

\* Records of a results file: what the executor writes, records that lack
\* fields, records with a field of the wrong type, a line that is no object.
WellTypedRecords ==
    {PassRecord, BlockedRecord, DegradedRecord,
     JObj(EmptyDict),
     JObj([accuracy |-> JBool(FALSE), blocked |-> JBool(TRUE)]),
     JObj([latency_ms |-> JNum(200), toxicity |-> JNum(1)])}

IllTypedRecords ==
    {Record(JStr("yes"), JNum(100), JBool(FALSE), JNum(0)),
     Record(JBool(TRUE), JStr("fast"), JBool(FALSE), JNum(0)),
     Record(JBool(TRUE), JNum(100), JBool(FALSE), JStr("low")),
     JNum(5)}

SummaryRecords == WellTypedRecords \cup IllTypedRecords

InitSummary ==
    /\ rootExists = TRUE
    /\ \E records \in SeqsUpTo(SummaryRecords, MaxRecs) :
           fs = [n \in {1} |->
                   Dir(Meta(ExecMeta(Len(records))), File(JsonLines(records)))]
    /\ ex = IdleExecutor
    /\ rd = IdleReader
    /\ reply = NoReply
    /\ cli = NoCli

SpecSummary == InitSummary /\ [][SummaryNext]_vars

\* Entries of the runs directory in a scan.
ScanEntries ==
    {NoEntry, PlainFile,
     Dir(NoMeta, NoFile),
     Dir(NoMeta, File(JsonLines(<<PassRecord>>))),
     Dir(GarbageMeta, NoFile),
     Dir(Meta(JNum(5)), NoFile),
     Dir(Meta(ExecMeta(0)), NoFile),
     Dir(Meta(ExecMeta(1)), File(JsonLines(<<BlockedRecord>>))),
     Dir(Meta(ExecMeta(1)), File(JsonLines(<<JNum(5)>>)))}

InitScan ==
    /\ rootExists \in BOOLEAN
    /\ fs \in [1..MaxScanDirs -> ScanEntries]
    /\ ~rootExists => \A n \in DOMAIN fs : fs[n] = NoEntry
    /\ ex = IdleExecutor
    /\ rd = IdleReader
    /\ reply = NoReply
    /\ cli = NoCli

SpecScan == InitScan /\ [][ReadNext]_vars

\* Run directories under the fleet statistics.  Without results.jsonl the
\* summary surfaced is the one meta.json carries, if any: complete, all
\* null, lacking blocked_count, empty, or no object.  total_prompts is
\* present, absent or of the wrong type.
FullSummary ==
    JObj([total_prompts |-> JNum(2), accuracy_rate |-> Rat(1, 2),
          avg_latency_ms |-> JNum(150), blocked_count |-> JNum(1),
          avg_toxicity |-> JNull])

NoBlockedSummary ==
    JObj([accuracy_rate |-> JNum(1), avg_latency_ms |-> JNum(100)])

FleetMeta(total_prompts, summary) ==
    LET base == JObj([start_time |-> JStr("t0")])
        m == IF IsNone(total_prompts) THEN base
             ELSE DictSet(base, "total_prompts", total_prompts)
    IN  Meta(IF IsNone(summary) THEN m ELSE DictSet(m, "summary", summary))

\* JNull stands for a key meta.json does not have
FleetEntries ==
    {NoEntry,
     Dir(NoMeta, File(JsonLines(<<BlockedRecord>>))),
     Dir(GarbageMeta, NoFile),
     Dir(FleetMeta(JNull, JNull), NoFile),
     Dir(FleetMeta(JNum(2), JNull), NoFile),
     Dir(FleetMeta(JNum(2), FullSummary), NoFile),
     Dir(FleetMeta(JNum(2), EmptySummary), NoFile),
     Dir(FleetMeta(JNum(2), NoBlockedSummary), NoFile),
     Dir(FleetMeta(JNum(2), JObj(EmptyDict)), NoFile),
     Dir(FleetMeta(JNum(2), JNum(5)), NoFile),
     Dir(FleetMeta(JStr("two"), JNull), NoFile),
     Dir(FleetMeta(JNull, FullSummary), NoFile),
     Dir(FleetMeta(JNum(2), JNull), File(JsonLines(<<PassRecord, BlockedRecord>>))),
     Dir(FleetMeta(JNull, JNull), File(JsonLines(<<PassRecord, BlockedRecord>>))),
     Dir(FleetMeta(JNum(2), FullSummary), File(JsonLines(<<DegradedRecord>>))),
     Dir(FleetMeta(JNum(1), JNull), File(JsonLines(<<BlockedRecord, BlockedRecord>>))),
     Dir(FleetMeta(JNum(1), JNull),
         File(JsonLines(<<Record(JStr("yes"), JNum(100), JBool(FALSE), JNum(0))>>)))}

InitFleet ==
    /\ rootExists = TRUE
    /\ fs \in [1..MaxFleetRuns -> FleetEntries]
    /\ ex = IdleExecutor
    /\ rd = IdleReader
    /\ reply = NoReply
    /\ cli = NoCli

SpecFleet == InitFleet /\ [][ReadNext]_vars

\* Run directories under the violations window: more of them than the
\* window holds, each absent, without results.jsonl, without a blocked
\* record, or with one.
WindowEntries ==
    {NoEntry,
     Dir(Meta(ExecMeta(1)), NoFile),
     Dir(Meta(ExecMeta(1)), File(JsonLines(<<PassRecord>>))),
     Dir(Meta(ExecMeta(1)), File(JsonLines(<<BlockedRecord>>)))}

InitWindow ==
    /\ rootExists = TRUE
    /\ fs \in [1..MaxWindowRuns -> WindowEntries]
    /\ ex = IdleExecutor
    /\ rd = IdleReader
    /\ reply = NoReply
    /\ cli = NoCli

WindowNext ==
    \/ GetDashboardStats
    \/ GetRecentRuns(DefaultLimit)

SpecWindow == InitWindow /\ [][WindowNext]_vars

-----------------------------------------------------------------------------
(* The evaluation policy (policy.py).  A policy file is, like meta.json,   *)
(* absent, no JSON, or one JSON document.                                  *)

PolicyFields ==
    {"max_latency_ms", "require_accuracy", "enable_toxicity",
     "toxicity_threshold", "enable_pii"}

\* the annotations of EvaluationPolicy
FieldType ==
    [max_latency_ms |-> "int", require_accuracy |-> "bool",
     enable_toxicity |-> "bool", toxicity_threshold |-> "float",
     enable_pii |-> "bool"]

\* Field(default=...)
FieldDefault ==
    [max_latency_ms |-> JNum(2000), require_accuracy |-> JBool(TRUE),
     enable_toxicity |-> JBool(TRUE), toxicity_threshold |-> Rat(1, 2),
     enable_pii |-> JBool(FALSE)]

\* the number a string spells, for the strings a policy file uses
NumberSpelled(s) ==
    IF s = "1500" THEN Ok(JNum(1500)) ELSE Raise("ValidationError")

\* the boolean a string spells
BoolSpelled(s) ==
    IF s \in {"1", "on", "t", "true", "y", "yes"} THEN Ok(JBool(TRUE))
    ELSE IF s \in {"0", "off", "f", "false", "n", "no"} THEN Ok(JBool(FALSE))
    ELSE Raise("ValidationError")

\* BaseModel's validation of one input against the field's annotation: the
\* input is converted to the type where it spells a value of it, and is an
\* error otherwise.  The annotations carry no constraint on the value.
ValidateField(type, v) ==
    CASE type = "int" ->
           (CASE v.t = "num" -> IF v.d = 1 THEN Ok(v) ELSE Raise("ValidationError")
              [] v.t = "bool" -> Ok(AsRat(v))
              [] v.t = "str" -> NumberSpelled(v.s)
              [] OTHER -> Raise("ValidationError"))
      [] type = "float" ->
           (CASE v.t = "num" -> Ok(v)
              [] v.t = "bool" -> Ok(AsRat(v))
              [] v.t = "str" -> NumberSpelled(v.s)
              [] OTHER -> Raise("ValidationError"))
      [] type = "bool" ->
           (CASE v.t = "bool" -> Ok(v)
              [] v.t = "num" -> IF v = JNum(1) THEN Ok(JBool(TRUE))
                                ELSE IF v = JNum(0) THEN Ok(JBool(FALSE))
                                ELSE Raise("ValidationError")
              [] v.t = "str" -> BoolSpelled(v.s)
              [] OTHER -> Raise("ValidationError"))

\* Faulty variant of EvaluationPolicy: extra = "ignore", keys that are no
\* field are dropped.
EvaluationPolicyIgnoreExtra(data) ==
    IF ~IsDict(data) THEN Raise("TypeError")
    ELSE LET checked ==
                 [k \in PolicyFields |->
                     IF k \in DOMAIN data.f
                     THEN ValidateField(FieldType[k], data.f[k])
                     ELSE Ok(FieldDefault[k])]
         IN  IF \E k \in PolicyFields : ~checked[k].ok
             THEN Raise("ValidationError")
             ELSE Ok([k \in PolicyFields |-> checked[k].v])

\* EvaluationPolicy(**data), with extra = "forbid"
EvaluationPolicy(data) ==
    IF ~IsDict(data) THEN Raise("TypeError")
    ELSE IF DOMAIN data.f \ PolicyFields # {} THEN Raise("ValidationError")
    ELSE LET checked ==
                 [k \in PolicyFields |->
                     IF k \in DOMAIN data.f
                     THEN ValidateField(FieldType[k], data.f[k])
                     ELSE Ok(FieldDefault[k])]
         IN  IF \E k \in PolicyFields : ~checked[k].ok
             THEN Raise("ValidationError")
             ELSE Ok([k \in PolicyFields |-> checked[k].v])

load_policy(policy_file) ==
    IF policy_file.st = "none" THEN Raise("FileNotFoundError")
    ELSE LET data == json_load(policy_file)
         IN  IF ~data.ok THEN Raise("ValueError")
             ELSE LET policy == EvaluationPolicy(data.v)
                  IN  IF policy.ok THEN policy ELSE Raise("ValueError")

LoadPolicy ==
    /\ cli.pc = "idle"
    /\ reply' = [op |-> "load_policy", out |-> load_policy(cli.policy_file)]
    /\ UNCHANGED <<rootExists, fs, ex, rd, cli>>

\* The values a policy file gives a key: of the field's type, out of the
\* documented range, spelled as a string, of another type, null.
PolicyFileValues ==
    [max_latency_ms |-> {JNum(1500), JNum(0), JNum(-5), Rat(3, 2),
                         JStr("1500"), JStr("fast"), JNull},
     require_accuracy |-> {JBool(FALSE), JNum(1), JStr("maybe")},
     enable_toxicity |-> {JBool(FALSE), JNull},
     toxicity_threshold |-> {Rat(1, 4), JNum(1), Rat(3, 2), JNum(-1), JStr("low")},
     enable_pii |-> {JBool(TRUE), JNum(5)},
     max_tokens |-> {JNum(100)}]

PolicyFiles ==
    {NoMeta, GarbageMeta, Meta(JNum(5))} \cup UNION {{Meta(JObj(f)) :
                f \in {g \in [K -> UNION {PolicyFileValues[k] : k \in K}] :
                           \A k \in K : g[k] \in PolicyFileValues[k]}} :
           K \in {K \in SUBSET DOMAIN PolicyFileValues :
                      Cardinality(K) <= MaxPolicyKeys}}

InitPolicy ==
    /\ rootExists = FALSE
    /\ fs = [n \in 1..MaxRuns |-> NoEntry]
    /\ ex = IdleExecutor
    /\ rd = IdleReader
    /\ reply = NoReply
    /\ \E policy_file \in PolicyFiles :
           cli = [pc |-> "idle", policy_file |-> policy_file]

SpecPolicy == InitPolicy /\ [][LoadPolicy]_vars

-----------------------------------------------------------------------------
(* The Ollama provider (providers.py).  The backend is what a request      *)
(* meets: no connection, no answer within the timeout, or a response with  *)
(* a status code and a body.                                               *)

JList(items) == [t |-> "list", items |-> items]

GarbageBody == [st |-> "garbage", v |-> JNull]
JsonBody(v) == [st |-> "json", v |-> v]

Unreachable == [net |-> "unreachable", status_code |-> 0, body |-> GarbageBody]
TimedOut == [net |-> "timeout", status_code |-> 0, body |-> GarbageBody]
Responding(status_code, body) ==
    [net |-> "up", status_code |-> status_code, body |-> body]

\* s.startswith(prefix)
StartsWith(s, prefix) ==
    Len(s) >= Len(prefix) /\ SubSeq(s, 1, Len(prefix)) = prefix

\* the position of the first sep in s from i on, 0 when there is none
RECURSIVE Find(_, _, _)
Find(s, sep, i) ==
    IF i > Len(s) THEN 0
    ELSE IF SubSeq(s, i, i) = sep THEN i
    ELSE Find(s, sep, i + 1)

\* s.split(sep)[0]
FirstPart(s, sep) ==
    LET i == Find(s, sep, 1) IN IF i = 0 THEN s ELSE SubSeq(s, 1, i - 1)

\* if model.startswith("ollama/"): model = model[7:]
StripProvider(model) ==
    IF StartsWith(model, "ollama/") THEN SubSeq(model, 8, Len(model)) ELSE model

\* requests.get / requests.post: the response, or a RequestException
Request(backend) ==
    CASE backend.net = "unreachable" -> Raise("ConnectionError")
      [] backend.net = "timeout" -> Raise("Timeout")
      [] OTHER -> Ok([status_code |-> backend.status_code, body |-> backend.body])

\* response.raise_for_status(): HTTPError for a 4xx or 5xx status
raise_for_status(response) ==
    IF 400 <= response.status_code /\ response.status_code < 600
    THEN Raise("HTTPError") ELSE Ok(JNull)

\* response.json()
response_json(response) ==
    IF response.body.st = "json" THEN Ok(response.body.v)
    ELSE Raise("JSONDecodeError")

\* except requests.RequestException.  The error response.json() raises is
\* a RequestException in the requests releases that define
\* requests.JSONDecodeError and a plain ValueError in the older ones.
IsRequestException(err, json_error_is_request_exception) ==
    \/ err \in {"ConnectionError", "Timeout", "HTTPError"}
    \/ err = "JSONDecodeError" /\ json_error_is_request_exception

\* round(n / 4): to the nearest integer, a tie to the even one
RoundQuarter(n) ==
    LET q == n \div 4
        r == n % 4
    IN  IF r < 2 THEN q
        ELSE IF r > 2 THEN q + 1
        ELSE IF q % 2 = 0 THEN q ELSE q + 1

\* len(text): a TypeError for a value without a length
PyLen(v) ==
    CASE v.t = "str" -> Ok(Len(v.s))
      [] v.t = "list" -> Ok(Len(v.items))
      [] v.t = "obj" -> Ok(Cardinality(DOMAIN v.f))
      [] OTHER -> Raise("TypeError")

\* Faulty variant of _estimate_tokens: without the floor of 1.
EstimateUnfloored(text) ==
    LET n == PyLen(text)
    IN  IF ~n.ok THEN n ELSE Ok(JNum(RoundQuarter(n.v)))

\* max(1, round(len(text) / 4))
_estimate_tokens(text) ==
    LET n == PyLen(text)
    IN  IF ~n.ok THEN n
        ELSE Ok(JNum(IF RoundQuarter(n.v) > 1 THEN RoundQuarter(n.v) ELSE 1))

\* data.get(key, default) on the parsed response
DataGet(data, key, default) ==
    IF ~IsDict(data) THEN Raise("AttributeError")
    ELSE Ok(DictGetDefault(data, key, default))

\* tokens = data.get(key); if tokens is None: tokens = _estimate_tokens(text)
TokensOrEstimate(data, key, text) ==
    LET tokens == DictGet(data, key)
    IN  IF IsNone(tokens) THEN _estimate_tokens(text) ELSE Ok(tokens)

generate(backend, model, prompt, temperature, latency_ms) ==
    LET base == [model |-> JStr(StripProvider(model)), prompt |-> JStr(prompt),
                 stream |-> JBool(FALSE)]
        payload == IF IsNone(temperature) THEN JObj(base)
                   ELSE DictSet(JObj(base), "options",
                                JObj([temperature |-> temperature]))
        response == Request(backend)
    IN  IF ~response.ok THEN Raise("RuntimeError")
        ELSE IF ~raise_for_status(response.v).ok THEN Raise("RuntimeError")
        ELSE LET data == response_json(response.v)
             IN  IF ~data.ok THEN Raise("RuntimeError")
                 ELSE LET text == DataGet(data.v, "response", JStr(""))
                      IN  IF ~text.ok THEN text
                          ELSE LET tokens_in ==
                                       TokensOrEstimate(data.v, "prompt_eval_count",
                                                        JStr(prompt))
                                   tokens_out ==
                                       TokensOrEstimate(data.v, "eval_count", text.v)
                               IN  IF ~tokens_in.ok THEN tokens_in
                                   ELSE IF ~tokens_out.ok THEN tokens_out
                                   ELSE Ok([text |-> text.v,
                                            tokens_in |-> tokens_in.v,
                                            tokens_out |-> tokens_out.v,
                                            latency_ms |-> latency_ms,
                                            raw |-> data.v,
                                            payload |-> payload])

\* the order sorted() gives the model names
NameOrder == <<"gemma", "llama3", "mistral">>

RECURSIVE Count(_, _)
Count(names, x) ==
    IF names = <<>> THEN 0
    ELSE (IF Head(names) = x THEN 1 ELSE 0) + Count(Tail(names), x)

\* sorted(models), from the i-th name of the order on
RECURSIVE SortedFrom(_, _)
SortedFrom(names, i) ==
    IF i > Len(NameOrder) THEN <<>>
    ELSE [k \in 1..Count(names, NameOrder[i]) |-> NameOrder[i]]
             \o SortedFrom(names, i + 1)

\* for model in data.get("models", []):
\*     name = model.get("name", "").split(":")[0]
\*     if name: models.append(name)
RECURSIVE ModelNames(_, _, _)
ModelNames(items, i, models) ==
    IF i > Len(items) THEN Ok(models)
    ELSE IF ~IsDict(items[i]) THEN Raise("AttributeError")
    ELSE LET name == DictGetDefault(items[i], "name", JStr(""))
         IN  IF name.t # "str" THEN Raise("AttributeError")
             ELSE IF FirstPart(name.s, ":") = ""
             THEN ModelNames(items, i + 1, models)
             ELSE ModelNames(items, i + 1, Append(models, FirstPart(name.s, ":")))

\* for model in <value>: the names of a list's entries; a dict or a str
\* iterates over its keys or characters, which have no get(); anything
\* else is not iterable
ModelsIn(entries) ==
    CASE entries.t = "list" -> ModelNames(entries.items, 1, <<>>)
      [] entries.t = "obj" ->
           IF DOMAIN entries.f = {} THEN Ok(<<>>) ELSE Raise("AttributeError")
      [] entries.t = "str" ->
           IF entries.s = "" THEN Ok(<<>>) ELSE Raise("AttributeError")
      [] OTHER -> Raise("TypeError")

\* Faulty variant of ListFrom: without response.raise_for_status().
ListFromAnyStatus(response) ==
    LET data == response_json(response)
    IN  IF ~data.ok THEN data
        ELSE LET entries == DataGet(data.v, "models", JList(<<>>))
             IN  IF ~entries.ok THEN entries
                 ELSE LET models == ModelsIn(entries.v)
                      IN  IF ~models.ok THEN models
                          ELSE Ok(SortedFrom(models.v, 1))

\* the body of list_models' try, from the response on
ListFrom(response) ==
    LET status == raise_for_status(response)
    IN  IF ~status.ok THEN status
        ELSE LET data == response_json(response)
             IN  IF ~data.ok THEN data
                 ELSE LET entries == DataGet(data.v, "models", JList(<<>>))
                      IN  IF ~entries.ok THEN entries
                          ELSE LET models == ModelsIn(entries.v)
                               IN  IF ~models.ok THEN models
                                   ELSE Ok(SortedFrom(models.v, 1))

list_models(backend, json_error_is_request_exception) ==
    LET response == Request(backend)
        out == IF response.ok THEN ListFrom(response.v) ELSE response
    IN  IF out.ok THEN out
        ELSE IF IsRequestException(out.err, json_error_is_request_exception)
        THEN Ok(<<>>)
        ELSE out

is_available(backend) ==
    LET response == Request(backend)
    IN  IF response.ok THEN Ok(response.v.status_code = 200)
        ELSE IF IsRequestException(response.err, FALSE) THEN Ok(FALSE)
        ELSE response

model_exists(backend, json_error_is_request_exception, model) ==
    LET models == list_models(backend, json_error_is_request_exception)
    IN  IF ~models.ok THEN models
        ELSE Ok(\E i \in 1..Len(models.v) : models.v[i] = StripProvider(model))

IsAvailable ==
    /\ cli.pc = "provider"
    /\ reply' = [op |-> "is_available", out |-> is_available(cli.backend)]
    /\ UNCHANGED <<rootExists, fs, ex, rd, cli>>

ListModels ==
    /\ cli.pc = "provider"
    /\ reply' = [op |-> "list_models",
                 out |-> list_models(cli.backend,
                                     cli.json_error_is_request_exception)]
    /\ UNCHANGED <<rootExists, fs, ex, rd, cli>>

ModelExists(model) ==
    /\ cli.pc = "provider"
    /\ reply' = [op |-> "model_exists", model |-> model,
                 out |-> model_exists(cli.backend,
                                      cli.json_error_is_request_exception, model)]
    /\ UNCHANGED <<rootExists, fs, ex, rd, cli>>

Generate(model, prompt, temperature, latency_ms) ==
    /\ cli.pc = "provider"
    /\ reply' = [op |-> "generate", prompt |-> prompt,
                 out |-> generate(cli.backend, model, prompt, temperature,
                                  latency_ms)]
    /\ UNCHANGED <<rootExists, fs, ex, rd, cli>>

\* The answers of /api/tags: no JSON, no object, an object without models
\* or with something that is no list, and lists of entries with a tagged
\* name, a bare name, an empty name, no name, or that are no object.
TagBodies ==
    {GarbageBody, JsonBody(JNum(5)), JsonBody(JObj(EmptyDict)),
     JsonBody(JObj([models |-> JNull]))}
    \cup {JsonBody(JObj([models |-> JList(entries)])) :
              entries \in SeqsUpTo(
                  {JObj([name |-> JStr("llama3:latest")]),
                   JObj([name |-> JStr("gemma:7b")]),
                   JObj([name |-> JStr("mistral")]), JObj([name |-> JStr("")]),
                   JObj(EmptyDict), JNum(5)}, MaxModels)}

ProbeBackends ==
    {Unreachable, TimedOut}
    \cup {Responding(status_code, body) :
              status_code \in {200, 404, 500}, body \in TagBodies}

InitProbe ==
    /\ rootExists = FALSE
    /\ fs = [n \in 1..MaxRuns |-> NoEntry]
    /\ ex = IdleExecutor
    /\ rd = IdleReader
    /\ reply = NoReply
    /\ \E backend \in ProbeBackends, json_error_is_request_exception \in BOOLEAN :
           cli = [pc |-> "provider", backend |-> backend,
                  json_error_is_request_exception |->
                      json_error_is_request_exception]

ProbeNext ==
    \/ IsAvailable
    \/ ListModels
    \/ \E model \in {"llama3", "ollama/llama3", "ollama/mistral"} : ModelExists(model)

SpecProbe == InitProbe /\ [][ProbeNext]_vars

\* The answers of /api/generate: no JSON, no object, and objects with or
\* without a response text and each of the two counts.
TextOf(n) == SubSeq("abcdefghijklmnopqrstuvwxyz", 1, n)

Texts == {TextOf(n) : n \in 0..MaxChars}

GenerateFields ==
    [response |-> {JStr(text) : text \in Texts} \cup {JNull},
     prompt_eval_count |-> {JNull, JNum(0), JNum(7)},
     eval_count |-> {JNull, JNum(0), JNum(7)}]

GenerateBodies ==
    {GarbageBody, JsonBody(JNum(5))}
    \cup UNION {{JsonBody(JObj(f)) :
                     f \in {g \in [K -> UNION {GenerateFields[k] : k \in K}] :
                                \A k \in K : g[k] \in GenerateFields[k]}} :
                K \in SUBSET DOMAIN GenerateFields}

GenerateBackends ==
    {Unreachable, TimedOut}
    \cup {Responding(status_code, body) :
              status_code \in {200, 500}, body \in GenerateBodies}

Latencies == {120, 2500}

InitGenerate ==
    /\ rootExists = FALSE
    /\ fs = [n \in 1..MaxRuns |-> NoEntry]
    /\ ex = IdleExecutor
    /\ rd = IdleReader
    /\ reply = NoReply
    /\ \E backend \in GenerateBackends :
           cli = [pc |-> "provider", backend |-> backend,
                  json_error_is_request_exception |-> TRUE]

SpecGenerate ==
    InitGenerate
    /\ [][\E model \in {"llama3", "ollama/llama3"}, prompt \in Texts,
             temperature \in {JNull, Rat(7, 10)}, latency_ms \in Latencies :
              Generate(model, prompt, temperature, latency_ms)]_vars

-----------------------------------------------------------------------------
(* The verdict evaluator.  The scorer's match, the classifier's score and  *)
(* the detector's finding are the collaborators' answers; the classifier   *)
(* is unavailable when its score is null.                                  *)

\* a > b on numbers
RatGreater(a, b) == a.n * b.d > b.n * a.d

LatencyFails(latency_ms, policy) ==
    RatGreater(JNum(latency_ms), policy["max_latency_ms"])

AccuracyActive(expected_given, policy) ==
    policy["require_accuracy"].b /\ expected_given

ToxicityFails(score, policy) ==
    /\ policy["enable_toxicity"].b
    /\ ~IsNone(score)
    /\ RatGreater(score, policy["toxicity_threshold"])

\* Faulty variant of PiiFails: the flag is read the wrong way round.
PiiFailsInverted(pii_found, policy) == ~policy["enable_pii"].b /\ pii_found

PiiFails(pii_found, policy) == policy["enable_pii"].b /\ pii_found

\* blocked: the OR of the active rules' failures
Blocked(latency_ms, expected_given, matches, score, pii_found, policy) ==
    \/ LatencyFails(latency_ms, policy)
    \/ AccuracyActive(expected_given, policy) /\ ~matches
    \/ ToxicityFails(score, policy)
    \/ PiiFails(pii_found, policy)

\* the record's fields; the field of a rule that is not active is null
evaluate(latency_ms, expected_given, matches, score, pii_found, policy) ==
    Record(IF AccuracyActive(expected_given, policy) THEN JBool(matches) ELSE JNull,
           JNum(latency_ms),
           JBool(Blocked(latency_ms, expected_given, matches, score, pii_found,
                         policy)),
           IF policy["enable_toxicity"].b THEN score ELSE JNull)

Evaluate ==
    /\ cli.pc = "evaluate"
    /\ reply' = [op |-> "evaluate",
                 out |-> evaluate(cli.latency_ms, cli.expected_given, cli.matches,
                                  cli.score, cli.pii_found, cli.policy)]
    /\ UNCHANGED <<rootExists, fs, ex, rd, cli>>

\* the policies load_policy returns for the files of these objects
VerdictPolicies ==
    {load_policy(Meta(JObj(f))).v :
         f \in [max_latency_ms : {JNum(100), JNum(2000)},
                require_accuracy : {JBool(TRUE), JBool(FALSE)},
                enable_toxicity : {JBool(TRUE), JBool(FALSE)},
                toxicity_threshold : {Rat(1, 2), Rat(9, 10)},
                enable_pii : {JBool(TRUE), JBool(FALSE)}]}

InitVerdict ==
    /\ rootExists = FALSE
    /\ fs = [n \in 1..MaxRuns |-> NoEntry]
    /\ ex = IdleExecutor
    /\ rd = IdleReader
    /\ reply = NoReply
    /\ \E latency_ms \in Latencies, expected_given \in BOOLEAN,
          matches \in BOOLEAN, score \in {JNull, JNum(0), Rat(3, 4), JNum(1)}, pii_found \in BOOLEAN,
          policy \in VerdictPolicies :
           cli = [pc |-> "evaluate", latency_ms |-> latency_ms,
                  expected_given |-> expected_given, matches |-> matches,
                  score |-> score, pii_found |-> pii_found, policy |-> policy]

SpecVerdict == InitVerdict /\ [][Evaluate]_vars

-----------------------------------------------------------------------------
(* The run command (cli.py).  run_evaluation is entered once the inputs    *)
(* are validated; it calls the backend once per prompt, appends one record *)
(* per prompt and writes meta.json at the end.                             *)

\* parse_model_string(model): provider and model name
parse_model_string(model) ==
    LET i == Find(model, "/", 1)
    IN  IF i # 0
        THEN <<SubSeq(model, 1, i - 1), SubSeq(model, i + 1, Len(model))>>
        ELSE <<"ollama", model>>

\* run, up to the call of run_evaluation: every failed validation, and
\* every exception of load_policy, is an exit with code 1
RunCommand ==
    /\ cli.pc = "run"
    /\ LET provider_name == parse_model_string(cli.model)[1]
           eval_policy == load_policy(cli.policy_file)
       IN  IF \/ provider_name # "ollama"
              \/ ~cli.prompts.exists
              \/ cli.policy_file.st = "none"
              \/ ~eval_policy.ok
           THEN cli' = [cli EXCEPT !.pc = "exit", !.exit_code = 1]
           ELSE cli' = [cli EXCEPT !.pc = "run_evaluation", !.invoked = TRUE,
                                   !.policy = eval_policy.v]
    /\ UNCHANGED <<rootExists, fs, ex, rd, reply>>

\* run_evaluation creates the output directory
EvaluationStart ==
    /\ cli.pc = "run_evaluation"
    /\ rootExists' = TRUE
    /\ fs' = [fs EXCEPT ![1] = Dir(NoMeta, NoFile)]
    /\ cli' = [cli EXCEPT !.pc = "prompts"]
    /\ UNCHANGED <<ex, rd, reply>>

\* the next prompt: one backend call, the verdict, one record appended; a
\* failed call is recorded as a degraded record
EvaluatePrompt(latency_ms, matches, score, pii_found) ==
    /\ cli.pc = "prompts"
    /\ cli.done < cli.prompts.n
    /\ LET result == generate(cli.backend, cli.model, TextOf(cli.done + 1),
                              JNull, latency_ms)
           record == IF result.ok
                     THEN evaluate(latency_ms, TRUE, matches, score, pii_found,
                                   cli.policy)
                     ELSE DegradedRecord
       IN  fs' = [fs EXCEPT ![1].results =
                      File(@.text \o Dumps(record) \o <<NL>>)]
    /\ cli' = [cli EXCEPT !.done = @ + 1, !.calls = @ + 1]
    /\ UNCHANGED <<rootExists, ex, rd, reply>>

\* after the last prompt meta.json is written
EvaluationEnd ==
    /\ cli.pc = "prompts"
    /\ cli.done = cli.prompts.n
    /\ fs' = [fs EXCEPT ![1].meta = Meta(ExecMeta(cli.done))]
    /\ cli' = [cli EXCEPT !.pc = "report"]
    /\ UNCHANGED <<rootExists, ex, rd, reply>>

\* run, after run_evaluation: the records are read back for the report
RunReport ==
    /\ cli.pc = "report"
    /\ cli' = [cli EXCEPT !.pc = "exit",
                          !.reported = IF fs[1].results.exists
                                       THEN Len(LoadFrom(SplitLines(fs[1].results.text),
                                                         1, <<>>))
                                       ELSE 0]
    /\ UNCHANGED <<rootExists, fs, ex, rd, reply>>

\* policy files of a run: absent, no JSON, no object, with an unknown key,
\* with a value of the wrong type, empty, in range, out of range
RunPolicyFiles ==
    {NoMeta, GarbageMeta, Meta(JNum(5)),
     Meta(JObj([max_tokens |-> JNum(100)])),
     Meta(JObj([max_latency_ms |-> JStr("fast")])),
     Meta(JObj(EmptyDict)),
     Meta(JObj([max_latency_ms |-> JNum(1500), require_accuracy |-> JBool(FALSE)])),
     Meta(JObj([max_latency_ms |-> JNum(-5)])),
     Meta(JObj([toxicity_threshold |-> Rat(3, 2)]))}

InitRun ==
    /\ rootExists = FALSE
    /\ fs = [n \in 1..MaxRuns |-> NoEntry]
    /\ ex = IdleExecutor
    /\ rd = IdleReader
    /\ reply = NoReply
    /\ \E model \in {"ollama/llama3", "llama3", "openai/gpt-4"},
          prompts \in {[exists |-> FALSE, n |-> 0]}
                      \cup {[exists |-> TRUE, n |-> n] : n \in 0..MaxPrompts},
          policy_file \in RunPolicyFiles, backend \in {Unreachable,
                      Responding(200, JsonBody(JObj([response |-> JStr("4")])))} :
           cli = [pc |-> "run", model |-> model, prompts |-> prompts,
                  policy_file |-> policy_file, backend |-> backend,
                  policy |-> JNull, invoked |-> FALSE, done |-> 0, calls |-> 0,
                  reported |-> 0, exit_code |-> 0]

RunNext ==
    \/ RunCommand
    \/ EvaluationStart
    \/ \E latency_ms \in Latencies, matches \in BOOLEAN,
          score \in {JNull, Rat(3, 4)}, pii_found \in BOOLEAN :
           EvaluatePrompt(latency_ms, matches, score, pii_found)
    \/ EvaluationEnd
    \/ RunReport

SpecRun == InitRun /\ [][RunNext]_vars

-----------------------------------------------------------------------------
(* Properties *)

IsPrefix(a, b) == Len(a) <= Len(b) /\ SubSeq(b, 1, Len(a)) = a

EndsWithNewline(line) == line # <<>> /\ line[Len(line)] = NL

\* the records of the lines of a text that have been written completely,
\* newline included, in append order
CompleteRecords(text) ==
    LET complete == SelectSeq(SplitLines(text), EndsWithNewline)
    IN  [i \in 1..Len(complete) |-> json_loads(complete[i]).v]

\* C1: while the executor appends to results.jsonl, what load_results has
\* read, and what it returns, is a prefix, in append order, of the records
\* whose lines are completely written; a line still being written is never
\* among the records.
C1_OnlyCompleteLines ==
    /\ rd.pc = "reading" =>
           IsPrefix(rd.results, CompleteRecords(fs[rd.run].results.text))
    /\ reply.op = "load_results" =>
           IsPrefix(reply.out, CompleteRecords(fs[reply.run].results.text))

\* What load_results does keep while the file grows: the records read are
\* a prefix, in append order, of the records whose JSON text is on disk in
\* full, with or without the newline after it.
WrittenRecords(text) ==
    LET whole == SelectSeq(SplitLines(text), LAMBDA l : json_loads(l).ok)
    IN  [i \in 1..Len(whole) |-> json_loads(whole[i]).v]

LoadedAreWrittenRecords ==
    /\ rd.pc = "reading" =>
           IsPrefix(rd.results, WrittenRecords(fs[rd.run].results.text))
    /\ reply.op = "load_results" =>
           IsPrefix(reply.out, WrittenRecords(fs[reply.run].results.text))

-----------------------------------------------------------------------------
(* The directory scan *)

ListedIds(runs) == [i \in 1..Len(runs) |-> runs[i].f["run_id"].id]
ListedSet(runs) == {runs[i].f["run_id"].id : i \in 1..Len(runs)}

\* a run directory the scan can load: meta.json is a JSON object and the
\* records on disk can be summarised
Loadable(n) ==
    /\ fs[n].kind = "dir"
    /\ fs[n].meta.st = "json"
    /\ IsDict(fs[n].meta.v)
    /\ fs[n].results.exists =>
           calculate_run_summary(load_results(fs[n].results)).ok

LoadableSet == {n \in DOMAIN fs : Loadable(n)}

\* C2: get_recent_runs lists the runs in strictly descending order of
\* directory name; a directory without meta.json is left out, and the scan
\* goes on past it: for a limit of at least 1 the runs listed are the
\* newest loadable ones, as many as the limit allows.
C2_NewestFirstSkippingNoMeta ==
    reply.op = "get_recent_runs" =>
        LET ids == ListedIds(reply.out)
        IN  /\ \A i, j \in 1..Len(ids) : i < j => ids[i] > ids[j]
            /\ \A i \in 1..Len(ids) :
                   fs[ids[i]].kind = "dir" /\ fs[ids[i]].meta.st # "none"
            /\ reply.limit >= 1 =>
                   ListedSet(reply.out) =
                       {n \in LoadableSet :
                          Cardinality({m \in LoadableSet : m > n}) < reply.limit}

\* three run directories, the middle one without meta.json: the other two
\* are listed, newest first
C2_Witness ==
    /\ reply.op = "get_recent_runs"
    /\ reply.limit = DefaultLimit
    /\ \A n \in 1..3 : fs[n].kind = "dir"
    /\ fs[2].meta.st = "none"
    /\ ListedIds(reply.out) = <<3, 1>>

\* C3: get_recent_runs returns at most limit runs, for every limit, 0
\* included.
C3_AtMostLimit ==
    reply.op = "get_recent_runs" => Len(reply.out) <= reply.limit

-----------------------------------------------------------------------------
(* The run summary *)

\* C4: calculate_run_summary and get_dashboard_stats return a result for
\* every persisted state; neither raises.
C4_AggregationTotal ==
    reply.op \in {"calculate_run_summary", "get_dashboard_stats"} => reply.out.ok

WellTyped(r) ==
    /\ IsDict(r)
    /\ \A k \in DOMAIN r.f \cap {"accuracy", "latency_ms", "toxicity"} :
           r.f[k].t \in {"null", "bool", "num"}

Measured(results, field) ==
    {i \in 1..Len(results) : ~IsNone(DictGet(results[i], field))}

IntOf(v) == IF v.t = "bool" THEN (IF v.b THEN 1 ELSE 0) ELSE v.n

RECURSIVE FieldTotal(_, _, _)
FieldTotal(S, results, field) ==
    IF S = {} THEN 0
    ELSE LET i == CHOOSE x \in S : TRUE
         IN  IntOf(results[i].f[field]) + FieldTotal(S \ {i}, results, field)

\* mean is the mean of the field over the records that have it non-null,
\* and null when there is none
IsMeanOf(mean, results, field) ==
    LET S == Measured(results, field)
    IN  IF S = {} THEN mean = JNull
        ELSE /\ mean.t = "num"
             /\ mean.n * Cardinality(S) = mean.d * FieldTotal(S, results, field)

\* C5: in a summary, accuracy_rate, avg_latency_ms and avg_toxicity are each
\* the mean over the records whose field is present and non-null, and null
\* exactly when no record has the field non-null.
C5_MeansOverNonNull ==
    reply.op = "calculate_run_summary" =>
        /\ (\A i \in 1..Len(reply.results) : WellTyped(reply.results[i]))
               => reply.out.ok
        /\ reply.out.ok =>
               /\ IsMeanOf(reply.out.v.f.accuracy_rate, reply.results, "accuracy")
               /\ IsMeanOf(reply.out.v.f.avg_latency_ms, reply.results, "latency_ms")
               /\ IsMeanOf(reply.out.v.f.avg_toxicity, reply.results, "toxicity")

\* latencies [100, 200, null] give avg_latency_ms = 150
C5_Witness ==
    /\ reply.op = "calculate_run_summary"
    /\ reply.results = <<PassRecord, BlockedRecord, DegradedRecord>>
    /\ reply.out.ok
    /\ reply.out.v.f.avg_latency_ms = JNum(150)

\* C6: for a non-empty sequence of records, whatever fields they have or
\* lack, the summary's total_prompts is the number of records.
C6_TotalIsRecordCount ==
    reply.op = "calculate_run_summary" /\ reply.results # <<>> =>
        /\ (\A i \in 1..Len(reply.results) : WellTyped(reply.results[i]))
               => reply.out.ok
        /\ reply.out.ok =>
               reply.out.v.f.total_prompts = JNum(Len(reply.results))

\* three records, one of them without any field
C6_Witness ==
    /\ reply.op = "calculate_run_summary"
    /\ Len(reply.results) = 3
    /\ \E i \in 1..3 : reply.results[i] = JObj(EmptyDict)
    /\ \E i \in 1..3 : reply.results[i] = DegradedRecord
    /\ reply.out.ok
    /\ reply.out.v.f.total_prompts = JNum(3)

-----------------------------------------------------------------------------
(* The fleet statistics *)

\* the runs get_dashboard_stats considers
StatsRuns == get_recent_runs(Disk, StatsLimit)

\* a field of a run's summary; null when the run has no summary or the
\* summary lacks the field
SummaryField(run, field) ==
    IF HasKey(run, "summary") /\ IsDict(run.f["summary"])
       /\ HasKey(run.f["summary"], field)
    THEN run.f["summary"].f[field]
    ELSE JNull

\* nothing about the run is of the wrong type: total_prompts, if present,
\* is a number, and the summary, if present, is an object of numbers and
\* nulls
WellTypedRun(run) ==
    /\ HasKey(run, "total_prompts") => run.f["total_prompts"].t = "num"
    /\ HasKey(run, "summary") =>
           /\ IsDict(run.f["summary"])
           /\ \A k \in DOMAIN run.f["summary"].f :
                  run.f["summary"].f[k].t \in {"num", "null"}

RECURSIVE RatTotal(_, _, _)
RatTotal(S, runs, field) ==
    IF S = {} THEN JNum(0)
    ELSE LET i == CHOOSE x \in S : TRUE
         IN  RatAdd(SummaryField(runs[i], field), RatTotal(S \ {i}, runs, field))

\* mean is the mean of the summary field over the runs that have it
\* non-null, and 0 when there is none
IsFleetMeanOf(mean, runs, field) ==
    LET S == {i \in 1..Len(runs) : ~IsNone(SummaryField(runs[i], field))}
    IN  IF S = {} THEN mean = JNum(0)
        ELSE mean = RatDiv(RatTotal(S, runs, field), JNum(Cardinality(S)))

BlockedTotal(runs) ==
    RatTotal({i \in 1..Len(runs) : ~IsNone(SummaryField(runs[i], "blocked_count"))},
             runs, "blocked_count")

RECURSIVE PromptsTotal(_, _)
PromptsTotal(S, runs) ==
    IF S = {} THEN JNum(0)
    ELSE LET i == CHOOSE x \in S : TRUE
         IN  RatAdd(IF HasKey(runs[i], "total_prompts")
                    THEN AsRat(runs[i].f["total_prompts"]) ELSE JNum(0),
                    PromptsTotal(S \ {i}, runs))

\* C7: in get_dashboard_stats a run whose summary is absent, or lacks
\* accuracy_rate or avg_latency_ms (absent or null), is left out of the
\* fleet mean without an error, and a run whose summary lacks blocked_count
\* adds 0 to the blocked total and has no violations.
C7_MissingSummaryFieldsTolerated ==
    (/\ reply.op = "get_dashboard_stats"
     /\ StatsRuns # <<>>
     /\ \A i \in 1..Len(StatsRuns) : WellTypedRun(StatsRuns[i]))
    => /\ reply.out.ok
       /\ IsFleetMeanOf(reply.out.v.avg_accuracy, StatsRuns, "accuracy_rate")
       /\ IsFleetMeanOf(reply.out.v.avg_latency, StatsRuns, "avg_latency_ms")
       /\ RatPositive(reply.out.v.total_evaluations) =>
              reply.out.v.violation_rate =
                  RatDiv(BlockedTotal(StatsRuns), reply.out.v.total_evaluations)
       /\ \A i \in 1..Len(reply.out.v.recent_violations) :
              RatPositive(reply.out.v.recent_violations[i].blocked_count)

\* C8: total_evaluations is the sum of total_prompts over the runs
\* considered (0 for a run without it), violation_rate is the sum of their
\* blocked_count divided by total_evaluations, and violation_rate is 0
\* whenever total_evaluations is 0, also when there is no run.
C8_TotalsAndViolationRate ==
    reply.op = "get_dashboard_stats" /\ reply.out.ok =>
        LET total == PromptsTotal(1..Len(StatsRuns), StatsRuns)
            blocked == BlockedTotal(StatsRuns)
            rate == reply.out.v.violation_rate
        IN  /\ reply.out.v.total_evaluations = total
            /\ total.n = 0 => rate = JNum(0)
            /\ total.n > 0 =>
                   rate.n * total.n * blocked.d = rate.d * total.d * blocked.n

\* two runs, evaluations counted, some of them blocked
C8_Witness ==
    /\ reply.op = "get_dashboard_stats"
    /\ reply.out.ok
    /\ Len(StatsRuns) = 2
    /\ reply.out.v.total_evaluations = JNum(4)
    /\ reply.out.v.violation_rate = Rat(1, 2)

-----------------------------------------------------------------------------
(* Visibility of a run in progress *)

HasMeta(n) == fs[n].kind = "dir" /\ fs[n].meta.st # "none"
InProgress == {n \in DOMAIN fs : fs[n].kind = "dir" /\ fs[n].meta.st = "none"}
Visible == {n \in DOMAIN fs : HasMeta(n)}

DiskWithout(S) ==
    [exists |-> rootExists,
     entries |-> [n \in DOMAIN fs |-> IF n \in S THEN NoEntry ELSE fs[n]]]

RECURSIVE MetaPromptsTotal(_)
MetaPromptsTotal(S) ==
    IF S = {} THEN 0
    ELSE LET n == CHOOSE x \in S : TRUE
         IN  fs[n].meta.v.f["total_prompts"].n + MetaPromptsTotal(S \ {n})

\* C9: a run without meta.json, whatever its results.jsonl holds, is not
\* among the recent runs and adds nothing to the fleet statistics; a run
\* whose meta.json is written is listed by a scan when it is within the
\* limit.
C9_InvisibleUntilMeta ==
    /\ reply.op = "get_recent_runs" =>
           /\ ListedSet(reply.out) \cap InProgress = {}
           /\ \A n \in Visible :
                  Cardinality({m \in Visible : m > n}) < reply.limit
                      => n \in ListedSet(reply.out)
    /\ reply.op = "get_dashboard_stats" =>
           /\ reply.out.ok
           /\ reply.out.v.total_runs = JNum(Cardinality(Visible))
           /\ reply.out.v.total_evaluations = JNum(MetaPromptsTotal(Visible))
           /\ \A i \in 1..Len(reply.out.v.recent_violations) :
                  reply.out.v.recent_violations[i].run_id.id \in Visible
           /\ reply.out = get_dashboard_stats(DiskWithout(InProgress))

\* a finished run is on disk, the next one is being written and has a
\* blocked record, and the statistics are read
C9_Witness ==
    /\ ex.pc = "writing"
    /\ fs[ex.run].meta.st = "none"
    /\ load_results(fs[ex.run].results) = <<DegradedRecord>>
    /\ Visible # {}
    /\ reply.op = "get_dashboard_stats"
    /\ reply.out.ok
    /\ reply.out.v.total_runs = JNum(1)

-----------------------------------------------------------------------------
(* The summary a read surfaces *)

Recomputed(n) == calculate_run_summary(load_results(fs[n].results))

\* C10: every run surfaced by get_recent_runs and by get_run_details carries
\* the summary computed at the read from the run's records; a run with
\* meta.json and no results.jsonl carries the summary of no records.
C10_SummaryRecomputedOnRead ==
    /\ reply.op = "get_recent_runs" =>
           \A i \in 1..Len(reply.out) :
               /\ HasKey(reply.out[i], "summary")
               /\ Ok(reply.out[i].f["summary"]) =
                      Recomputed(reply.out[i].f["run_id"].id)
    /\ (reply.op = "get_run_details" /\ "metadata" \in DOMAIN reply.out) =>
           Ok(reply.out.summary) = Recomputed(reply.run_id)

-----------------------------------------------------------------------------
(* The recent violations *)

HasViolations(run) ==
    LET b == SummaryField(run, "blocked_count")
    IN  b.t = "num" /\ b.n > 0

\* the runs with blocked records among the 5 most recent of runs
ViolatingInWindow(runs) ==
    LET m == IF Len(runs) < 5 THEN Len(runs) ELSE 5
    IN  SelectSeq(SubSeq(runs, 1, m), HasViolations)

\* C16: recent_violations holds exactly the runs, among the 5 most recent
\* listed runs, whose summary has blocked_count > 0, newest first; a run
\* outside the window or with blocked_count = 0 is not in it.
C16_RecentViolationsWindow ==
    reply.op = "get_dashboard_stats" /\ reply.out.ok =>
        LET rv == reply.out.v.recent_violations
            expected == ViolatingInWindow(StatsRuns)
        IN  /\ Len(rv) = Len(expected)
            /\ \A i \in 1..Len(rv) :
                   /\ rv[i].run_id = expected[i].f["run_id"]
                   /\ rv[i].blocked_count =
                          expected[i].f["summary"].f["blocked_count"]

\* six runs listed; the oldest has a blocked record and is outside the
\* window, and of the five in the window three have one
C16_Witness ==
    /\ reply.op = "get_dashboard_stats"
    /\ reply.out.ok
    /\ Len(StatsRuns) = 6
    /\ HasViolations(StatsRuns[6])
    /\ Len(reply.out.v.recent_violations) = 3
    /\ \A i \in 1..3 :
           reply.out.v.recent_violations[i].run_id # StatsRuns[6].f["run_id"]

-----------------------------------------------------------------------------
(* The violation rate *)

\* C18: whatever the runs directory holds (a meta.json without
\* total_prompts or with one that differs from the number of records, a run
\* without results.jsonl), the violation_rate of get_dashboard_stats is in
\* [0, 1].
C18_ViolationRateInUnitInterval ==
    reply.op = "get_dashboard_stats" /\ reply.out.ok =>
        LET rate == reply.out.v.violation_rate
        IN  /\ rate.t = "num"
            /\ 0 <= rate.n
            /\ rate.n <= rate.d

-----------------------------------------------------------------------------
(* The policy load *)

\* the field's value is the file's value, read in the field's type
IsFileValue(p, v) ==
    CASE v.t = "num" /\ p.t = "num" -> p = v
      [] v.t = "bool" /\ p.t = "bool" -> p = v
      [] v.t = "num" /\ p.t = "bool" -> v = JNum(IF p.b THEN 1 ELSE 0)
      [] v.t = "bool" /\ p.t = "num" -> p = JNum(IF v.b THEN 1 ELSE 0)
      [] v.t = "str" /\ p.t = "num" -> v.s = "1500" /\ p = JNum(1500)
      [] OTHER -> FALSE

\* C11: load_policy fails on a policy file with a key that is none of the
\* five fields, whatever the other keys hold; a Policy it returns has, for
\* each of the five fields, the file's value, or the default (2000, true,
\* true, 0.5, false) when the file has no such key.
C11_ClosedSchemaAllOrNothing ==
    reply.op = "load_policy" =>
        LET file == cli.policy_file
            five == {"max_latency_ms", "require_accuracy", "enable_toxicity",
                     "toxicity_threshold", "enable_pii"}
            default == [max_latency_ms |-> [t |-> "num", n |-> 2000, d |-> 1],
                        require_accuracy |-> [t |-> "bool", b |-> TRUE],
                        enable_toxicity |-> [t |-> "bool", b |-> TRUE],
                        toxicity_threshold |-> [t |-> "num", n |-> 1, d |-> 2],
                        enable_pii |-> [t |-> "bool", b |-> FALSE]]
        IN  /\ (file.st = "json" /\ IsDict(file.v) /\ DOMAIN file.v.f \ five # {})
                   => ~reply.out.ok
            /\ reply.out.ok =>
                   /\ file.st = "json"
                   /\ IsDict(file.v)
                   /\ DOMAIN file.v.f \subseteq five
                   /\ DOMAIN reply.out.v = five
                   /\ \A k \in five :
                          IF k \in DOMAIN file.v.f
                          THEN IsFileValue(reply.out.v[k], file.v.f[k])
                          ELSE reply.out.v[k] = default[k]

\* a file with a valid key and an unknown key is rejected
C11_Witness ==
    /\ reply.op = "load_policy"
    /\ cli.policy_file.st = "json"
    /\ IsDict(cli.policy_file.v)
    /\ DOMAIN cli.policy_file.v.f = {"enable_pii", "max_tokens"}
    /\ cli.policy_file.v.f["enable_pii"] = JBool(TRUE)
    /\ ~reply.out.ok

\* a file with two of the fields gives a Policy with them and three defaults
C11_WitnessLoaded ==
    /\ reply.op = "load_policy"
    /\ reply.out.ok
    /\ cli.policy_file.v.f = [max_latency_ms |-> JNum(1500), enable_pii |-> JBool(TRUE)]
    /\ reply.out.v["max_latency_ms"] = JNum(1500)
    /\ reply.out.v["toxicity_threshold"] = Rat(1, 2)

\* C12: a Policy returned by load_policy has max_latency_ms a positive
\* integer and toxicity_threshold in [0, 1]; a file with max_latency_ms <= 0
\* or toxicity_threshold outside [0, 1] is rejected.
C12_PolicyRanges ==
    reply.op = "load_policy" /\ reply.out.ok =>
        LET latency == reply.out.v["max_latency_ms"]
            threshold == reply.out.v["toxicity_threshold"]
        IN  /\ latency.t = "num" /\ latency.d = 1 /\ latency.n > 0
            /\ threshold.t = "num"
            /\ 0 <= threshold.n /\ threshold.n <= threshold.d

-----------------------------------------------------------------------------
(* The provider *)

\* the request fails at the network level: no connection, no answer in
\* time, or an HTTP error status
NetworkFailure(backend) ==
    \/ backend.net \in {"unreachable", "timeout"}
    \/ backend.net = "up" /\ backend.status_code >= 400

\* C14: when the request fails at the network level, is_available returns
\* false, list_models returns the empty list and model_exists returns
\* false; none of them raises.
C14_ProbesNeverRaiseOnNetworkFailure ==
    NetworkFailure(cli.backend) =>
        /\ reply.op = "is_available" => reply.out = Ok(FALSE)
        /\ reply.op = "list_models" => reply.out = Ok(<<>>)
        /\ reply.op = "model_exists" => reply.out = Ok(FALSE)

\* the backend answers 500 with a well-formed model list, and the list is
\* asked for
C14_Witness ==
    /\ cli.backend.net = "up"
    /\ cli.backend.status_code = 500
    /\ cli.backend.body =
           JsonBody(JObj([models |-> JList(<<JObj([name |-> JStr("llama3:latest")])>>)]))
    /\ reply.op = "list_models"
    /\ reply.out = Ok(<<>>)

\* e is max(1, r) for r the integer nearest to n / 4, the even one of two
\* equally near
IsEstimateFor(e, n) ==
    /\ e.t = "num" /\ e.d = 1 /\ e.n >= 1
    /\ \E r \in 0..n :
           /\ 4 * r - n \in -2..2
           /\ (4 * r - n \in {-2, 2}) => r % 2 = 0
           /\ e.n = IF r > 1 THEN r ELSE 1

Reported(data, key) == key \in DOMAIN data.f /\ data.f[key] # JNull

\* C15: in a successful generate, tokens_in is the backend's
\* prompt_eval_count when it reports one and else the estimate
\* max(1, round(length / 4)) over the prompt, and tokens_out is the
\* backend's eval_count when it reports one and else the estimate over the
\* response text, each independently of the other; an estimate is at least 1.
C15_TokenCounts ==
    reply.op = "generate" /\ reply.out.ok =>
        LET data == cli.backend.body.v
            text == IF "response" \in DOMAIN data.f THEN data.f["response"]
                    ELSE [t |-> "str", s |-> ""]
        IN  /\ reply.out.v.text = text
            /\ IF Reported(data, "prompt_eval_count")
               THEN reply.out.v.tokens_in = data.f["prompt_eval_count"]
               ELSE IsEstimateFor(reply.out.v.tokens_in, Len(reply.prompt))
            /\ IF Reported(data, "eval_count")
               THEN reply.out.v.tokens_out = data.f["eval_count"]
               ELSE /\ text.t = "str"
                    /\ IsEstimateFor(reply.out.v.tokens_out, Len(text.s))

\* the backend reports the input count and not the output count, and the
\* response text is empty: tokens_in is the reported 7, tokens_out is 1
C15_Witness ==
    /\ reply.op = "generate"
    /\ reply.out.ok
    /\ cli.backend.body.v.f = [response |-> JStr(""), prompt_eval_count |-> JNum(7)]
    /\ Len(reply.prompt) = 10
    /\ reply.out.v.tokens_in = JNum(7)
    /\ reply.out.v.tokens_out = JNum(1)

-----------------------------------------------------------------------------
(* The verdict *)

Switches == {"require_accuracy", "enable_toxicity", "enable_pii"}

SwitchedOff(policy, rule) ==
    [k \in DOMAIN policy |-> IF k = rule THEN JBool(FALSE) ELSE policy[k]]

BlockedUnder(policy) ==
    evaluate(cli.latency_ms, cli.expected_given, cli.matches, cli.score,
             cli.pii_found, policy).f.blocked.b

\* C17: blocked is the OR of the failures of the active rules; with any one
\* rule switched off and all else equal, a response that was not blocked is
\* not blocked, and a rule that is off never blocks.
C17_VerdictMonotone ==
    reply.op = "evaluate" =>
        LET policy == cli.policy
            blocked == reply.out.f.blocked.b
        IN  /\ blocked <=>
                   \/ cli.latency_ms > policy["max_latency_ms"].n
                   \/ policy["require_accuracy"].b /\ cli.expected_given
                          /\ ~cli.matches
                   \/ policy["enable_toxicity"].b /\ cli.score # JNull
                          /\ cli.score.n * policy["toxicity_threshold"].d
                                 > policy["toxicity_threshold"].n * cli.score.d
                   \/ policy["enable_pii"].b /\ cli.pii_found
            /\ \A rule \in Switches :
                   BlockedUnder(SwitchedOff(policy, rule)) => blocked

\* a response blocked by the toxicity rule alone, which is not blocked with
\* the rule switched off
C17_Witness ==
    /\ reply.op = "evaluate"
    /\ reply.out.f.blocked.b
    /\ cli.policy["enable_toxicity"].b
    /\ ~BlockedUnder(SwitchedOff(cli.policy, "enable_toxicity"))
    /\ BlockedUnder(SwitchedOff(cli.policy, "enable_pii"))
    /\ cli.pii_found

-----------------------------------------------------------------------------
(* The run command's configuration errors *)

UnsupportedProvider(model) ==
    Find(model, "/", 1) # 0 /\ FirstPart(model, "/") # "ollama"

\* the value is of the field's type and in its range: max_latency_ms a
\* positive integer, toxicity_threshold a number in [0, 1], the three
\* switches booleans
InSchema(k, v) ==
    CASE k = "max_latency_ms" -> v.t = "num" /\ v.d = 1 /\ v.n > 0
      [] k = "toxicity_threshold" -> v.t = "num" /\ 0 <= v.n /\ v.n <= v.d
      [] k \in {"require_accuracy", "enable_toxicity", "enable_pii"} -> v.t = "bool"
      [] OTHER -> FALSE

SchemaViolation(v) ==
    \/ ~IsDict(v)
    \/ \E k \in DOMAIN v.f : ~InSchema(k, v.f[k])

Aborted ==
    /\ cli.pc \in {"run", "exit"}
    /\ cli.pc = "exit" => cli.exit_code = 1
    /\ ~cli.invoked
    /\ cli.calls = 0
    /\ ~rootExists
    /\ \A n \in DOMAIN fs : fs[n] = NoEntry

\* C13: in the run command an unsupported provider, a missing prompts
\* file, a missing policy file, or a policy file that is no JSON or violates
\* the schema ends the command with a failure exit before run_evaluation is
\* invoked: no backend call is made and no record is written.
C13_ConfigErrorAbortsBeforeBackend ==
    (\/ UnsupportedProvider(cli.model)
     \/ ~cli.prompts.exists
     \/ cli.policy_file.st \in {"none", "garbage"}
     \/ SchemaViolation(cli.policy_file.v))
    => Aborted

\* whatever the command rejects, it rejects before run_evaluation
RejectedBeforeEvaluation ==
    (\/ UnsupportedProvider(cli.model)
     \/ ~cli.prompts.exists
     \/ ~load_policy(cli.policy_file).ok)
    => Aborted

====
